---- MODULE Spec2Model ----
(***************************************************************************)
(* poof-mcp: the Terminal Manager, its key encoder and its polling loops.  *)
(* Strings whose characters matter (key names, typed text, screen content) *)
(* are sequences of one-character strings; session names are strings.      *)
(***************************************************************************)
EXTENDS Integers, Sequences, FiniteSets, TLC

VARIABLES
    currentSession,   \* TerminalManager.currentSession (null = Null)
    windowId,         \* TerminalManager.windowId (null = NoWindow)
    registry,         \* names of the sessions zmx currently lists
    windows,          \* open Terminal windows, front window first
    nextWin,          \* the id Terminal.app gives to the next window
    now,              \* Date.now(), in ms
    last,             \* the operation that ran last and what the caller got
    keysIn,           \* argument of the last sendKeys / sendKeystroke
    delivered,        \* automation events the last operation delivered
    pc,               \* position inside a running waitForText / waitForStable
    screen,           \* visible text of the front window
    wait,             \* locals of the running waitForText / waitForStable
    named,            \* history: the session names used so far
    capturing,        \* window of the screenshot capture in flight
    shot,             \* the captureScreenshot call: its file and its outcome
    tmpFiles,         \* the screenshot files that exist in the temp directory
    signal            \* the SIGINT / SIGTERM delivered to the process

vars == <<currentSession, windowId, registry, windows, nextWin, now, last,
          keysIn, delivered, pc, screen, wait, named, capturing, shot,
          tmpFiles, signal>>

shotVars == <<shot, tmpFiles>>
hostVars == <<capturing, signal, shotVars>>
mgrVars == <<currentSession, windowId, registry, windows, nextWin, named,
             hostVars>>
waitVars == <<pc, screen, wait>>

----------------------------------------------------------------------------
(* Bounds *)

MaxWin == 2          \* windows ever opened in a behaviour
MaxTicks == 1        \* clock ticks between two settle delays
MaxKeys == 2         \* length of a sendKeys argument
MaxShort == 2        \* length of the exhaustively enumerated key names
MaxSampleTicks == 3  \* longest screen sample, in quanta
Quantum == 50        \* granularity of the durations of a screen sample, ms
MaxText == 3         \* length of a text injected into a script
MaxLines == 2        \* lines of a registry report

Null == "<null>"
NoWindow == 0

\* The names callers give their sessions; one has the form of a generated name.
Names == {"dev", "poof-500"}

----------------------------------------------------------------------------
(* Characters and strings *)

Uppers == <<"A","B","C","D","E","F","G","H","I","J","K","L","M",
            "N","O","P","Q","R","S","T","U","V","W","X","Y","Z">>
Lowers == <<"a","b","c","d","e","f","g","h","i","j","k","l","m",
            "n","o","p","q","r","s","t","u","v","w","x","y","z">>

LowerChar(c) ==
    IF \E i \in 1..26 : Uppers[i] = c
    THEN Lowers[CHOOSE i \in 1..26 : Uppers[i] = c]
    ELSE c

UpperChar(c) ==
    IF \E i \in 1..26 : Lowers[i] = c
    THEN Uppers[CHOOSE i \in 1..26 : Lowers[i] = c]
    ELSE c

\* String.prototype.toLowerCase
toLowerCase(s) == [i \in 1..Len(s) |-> LowerChar(s[i])]

\* String.prototype.includes(ch) for a one-character needle
includesChar(s, ch) == \E i \in 1..Len(s) : s[i] = ch

\* String.prototype.split(sep) for a one-character separator
RECURSIVE split(_, _)
split(s, sep) ==
    IF ~includesChar(s, sep) THEN <<s>>
    ELSE LET i == CHOOSE j \in 1..Len(s) :
                      s[j] = sep /\ \A k \in 1..(j-1) : s[k] # sep
         IN <<SubSeq(s, 1, i-1)>> \o split(SubSeq(s, i+1, Len(s)), sep)

\* String.prototype.includes(needle)
includes(s, needle) ==
    \E i \in 0..(Len(s) - Len(needle)) :
        SubSeq(s, i+1, i+Len(needle)) = needle

----------------------------------------------------------------------------
(* Key encoder: applescript.sendKeystroke *)

KEY_CODES_TABLE == {
    <<<<"e", "n", "t", "e", "r">>, 36>>,
    <<<<"r", "e", "t", "u", "r", "n">>, 36>>,
    <<<<"t", "a", "b">>, 48>>,
    <<<<"e", "s", "c", "a", "p", "e">>, 53>>,
    <<<<"e", "s", "c">>, 53>>,
    <<<<"s", "p", "a", "c", "e">>, 49>>,
    <<<<"d", "e", "l", "e", "t", "e">>, 51>>,
    <<<<"b", "a", "c", "k", "s", "p", "a", "c", "e">>, 51>>,
    <<<<"u", "p">>, 126>>,
    <<<<"d", "o", "w", "n">>, 125>>,
    <<<<"l", "e", "f", "t">>, 123>>,
    <<<<"r", "i", "g", "h", "t">>, 124>>,
    <<<<"h", "o", "m", "e">>, 115>>,
    <<<<"e", "n", "d">>, 119>>,
    <<<<"p", "a", "g", "e", "u", "p">>, 116>>,
    <<<<"p", "a", "g", "e", "d", "o", "w", "n">>, 121>>,
    <<<<"f", "1">>, 122>>,
    <<<<"f", "2">>, 120>>,
    <<<<"f", "3">>, 99>>,
    <<<<"f", "4">>, 118>>,
    <<<<"f", "5">>, 96>>,
    <<<<"f", "6">>, 97>>,
    <<<<"f", "7">>, 98>>,
    <<<<"f", "8">>, 100>>,
    <<<<"f", "9">>, 101>>,
    <<<<"f", "1", "0">>, 109>>,
    <<<<"f", "1", "1">>, 103>>,
    <<<<"f", "1", "2">>, 111>>
}

\* Property names every object literal inherits from Object.prototype and
\* that survive toLowerCase: KEY_CODES[name] is then an object, not undefined.
InheritedKeys == {
    <<"c", "o", "n", "s", "t", "r", "u", "c", "t", "o", "r">>,
    <<"_", "_", "p", "r", "o", "t", "o", "_", "_">>
}

Undefined == -1      \* KEY_CODES[k] === undefined
NotANumber == -2     \* KEY_CODES[k] is an inherited, non-numeric property

\* KEY_CODES[name]
KEY_CODES(name) ==
    IF \E e \in KEY_CODES_TABLE : e[1] = name
    THEN (CHOOSE e \in KEY_CODES_TABLE : e[1] = name)[2]
    ELSE IF name \in InheritedKeys THEN NotANumber
    ELSE Undefined

\* The switch over the modifier: the "using ... down" clause, "" when unknown.
modifierClause(modifier) ==
    CASE modifier \in {<<"c","t","r","l">>, <<"c","o","n","t","r","o","l">>}
            -> "control"
      [] modifier \in {<<"a","l","t">>, <<"o","p","t","i","o","n">>}
            -> "option"
      [] modifier = <<"s","h","i","f","t">>
            -> "shift"
      [] modifier \in {<<"c","m","d">>, <<"c","o","m","m","a","n","d">>}
            -> "command"
      [] OTHER -> ""

\* What one call hands to the automation layer, or the exception it throws.
KeyCode(code, mod) ==
    [kind |-> "keycode", code |-> code, mod |-> mod, text |-> <<>>, err |-> ""]
Keystroke(ch, mod) ==
    [kind |-> "keystroke", code |-> 0, mod |-> mod, text |-> ch, err |-> ""]
TypedText(text) ==
    [kind |-> "text", code |-> 0, mod |-> "", text |-> text, err |-> ""]
Activate ==
    [kind |-> "activate", code |-> 0, mod |-> "", text |-> <<>>, err |-> ""]
Thrown(err) ==
    [kind |-> "error", code |-> 0, mod |-> "", text |-> <<>>, err |-> err]

\* The modifier branch of sendKeystroke (key contains "+").
sendKeystrokeModifier(key) ==
    LET parts == split(key, "+")
        modifier == toLowerCase(parts[1])
        mainKey == parts[2]
        clause == modifierClause(modifier)
        keyCode == KEY_CODES(toLowerCase(mainKey))
    IN IF clause = "" THEN Thrown("Unknown modifier")
       ELSE IF keyCode = NotANumber THEN Thrown("AppleScript error")
       ELSE IF keyCode # Undefined THEN KeyCode(keyCode, clause)
       ELSE IF Len(mainKey) = 1 THEN Keystroke(mainKey, clause)
       ELSE Thrown("Unknown key")

\* sendKeystroke(key), the automation layer answering: the event delivered,
\* or the error thrown.
sendKeystroke(key) ==
    LET lowerKey == toLowerCase(key)
        keyCode == KEY_CODES(lowerKey)
    IN IF includesChar(key, "+") THEN sendKeystrokeModifier(key)
       ELSE IF keyCode = NotANumber THEN Thrown("AppleScript error")
       ELSE IF keyCode # Undefined THEN KeyCode(keyCode, "")
       ELSE IF Len(key) = 1 THEN TypedText(key)
       ELSE Thrown("Unknown key")

----------------------------------------------------------------------------
(* External collaborators: zmx and Terminal.app *)

\* id of front window, as getTerminalWindowId's script reports it
frontWindow == IF windows = <<>> THEN NoWindow ELSE Head(windows)

\* applescript.getTerminalWindowId(): the front window's id, or null when
\* there is no window or the script fails (the catch returns null).
getTerminalWindowId == {frontWindow, NoWindow}

\* "close front window" inside "if (count of windows) > 0"
closeFront(ws) == IF ws = <<>> THEN ws ELSE Tail(ws)

\* `poof-${Date.now()}`
poofName(t) == "poof-" \o ToString(t)

SettleDelay == 500

\* "delay 0.5" in openTerminalWithSession's script
OpenDelay == 500

\* The key names sendKeys is exercised with.
K_a == <<"a">>
K_enter == <<"e", "n", "t", "e", "r">>
K_foo == <<"f", "o", "o">>
K_ctrl_c == <<"c", "t", "r", "l", "+", "c">>
K_UP == <<"U", "P">>
SendKeyNames == {K_a, K_enter, K_foo, K_ctrl_c, K_UP}

KeyLists == UNION {[1..n -> SendKeyNames] : n \in 0..MaxKeys}

\* Commands of restartTerminal; <<>> is "no command" (undefined and "" are
\* both falsy).
NoCommand == <<>>
Commands == {NoCommand, <<"l", "s">>}

NoCount == -1

\* What a tool call answers: ok is the handler's result without isError.
\* For get_screenshot, captured is the window whose image the capture
\* produced, data what the handler put into the image payload, and rejected
\* whether the capture's promise rejected with no one handling it.  For
\* resize_terminal, size is the size asked for, applied whether the script
\* set it on a window, and info the kind of text the handler answered with.
Response(op, arg, ok, err) ==
    [op |-> op, arg |-> arg, ok |-> ok, err |-> err, count |-> NoCount,
     sessionName |-> Null, isActive |-> FALSE, winId |-> NoWindow,
     sessions |-> {}, captured |-> NoWindow, data |-> "none",
     rejected |-> FALSE, size |-> <<0, 0>>, applied |-> FALSE,
     info |-> "none"]

\* No tool call has answered since the environment last moved.
NoResponse == Response("none", "", TRUE, "")

\* No captureScreenshot call has been made.
NoShot == [tmpFile |-> -1, path |-> "none", errMsg |-> "",
           completion |-> "none", err |-> "", cleanup |-> "none",
           calls |-> 0]

----------------------------------------------------------------------------
(* TerminalManager *)

InitLocal ==
    /\ currentSession = Null
    /\ windowId = NoWindow
    /\ windows = <<>>
    /\ nextWin = 1
    /\ now = 0
    /\ last = Response("init", "", TRUE, "")
    /\ delivered = <<>>
    /\ pc = "idle"
    /\ screen = <<>>
    /\ wait = [text |-> <<>>, timeoutMs |-> 0, stableMs |-> 0, startTime |-> 0,
               content |-> <<>>, lastContent |-> <<>>, lastChangeTime |-> 0,
               sleepUntil |-> 0, result |-> FALSE, elapsedMs |-> 0,
               samples |-> 0, matches |-> 0, changed |-> FALSE,
               sampleMs |-> 0, firstMs |-> 0,
               prevSample |-> <<>>, lastDiffTime |-> 0]
    /\ named = {}
    /\ capturing = NoWindow
    /\ shot = NoShot
    /\ tmpFiles = {}
    /\ signal = [state |-> "none", at |-> "idle"]

\* The Manager just constructed; zmx may already hold sessions.
Init ==
    /\ InitLocal
    /\ registry \in SUBSET Names
    /\ keysIn = <<>>

\* The same, for the operations that never look at the registry.
InitIdle ==
    /\ InitLocal
    /\ registry = {}
    /\ keysIn = <<>>

\* createSession(sessionName); openTerminalWithSession either returns the new
\* front window's id, or throws before ("early") or after ("late") the
\* window was opened.
createSessionCall(sessionName) ==
    \E out \in {"ok", "early", "late"} :
        /\ out # "early" => nextWin <= MaxWin
        /\ IF out = "early"
           THEN UNCHANGED <<windows, nextWin, registry>>
           ELSE /\ windows' = <<nextWin>> \o windows
                /\ nextWin' = nextWin + 1
                /\ registry' = registry \cup {sessionName}
        /\ IF out = "ok"
           THEN /\ currentSession' = sessionName
                /\ windowId' = nextWin
                /\ last' = [Response("createSession", sessionName, TRUE, "")
                               EXCEPT !.sessionName = sessionName,
                                      !.winId = nextWin]
           ELSE /\ UNCHANGED <<currentSession, windowId>>
                /\ last' = Response("createSession", sessionName, FALSE,
                                    "AppleScript error")
        /\ now' = IF out = "early" THEN now ELSE now + OpenDelay
        /\ keysIn' = <<>>
        /\ delivered' = <<>>
        /\ UNCHANGED <<waitVars, hostVars>>

\* The create_session tool.
createSession(sessionName) ==
    createSessionCall(sessionName) /\ UNCHANGED named

\* killSession forgetting to clear the state.
clearIfCurrent_Never(cur, win, sessionName) == <<cur, win>>

\* The state after killSession's "if (this.currentSession === sessionName)".
clearIfCurrent(cur, win, sessionName) ==
    IF cur = sessionName THEN <<Null, NoWindow>> ELSE <<cur, win>>

\* killSession(sessionName); zmx kill succeeds or throws.
killSession(sessionName) ==
    \E killed \in BOOLEAN :
        /\ IF killed
           THEN /\ registry' = registry \ {sessionName}
                /\ currentSession' =
                       clearIfCurrent(currentSession, windowId, sessionName)[1]
                /\ windowId' =
                       clearIfCurrent(currentSession, windowId, sessionName)[2]
                /\ last' = Response("killSession", sessionName, TRUE, "")
           ELSE /\ UNCHANGED <<registry, currentSession, windowId>>
                /\ last' = Response("killSession", sessionName, FALSE,
                                    "zmx error")
        /\ keysIn' = <<>>
        /\ delivered' = <<>>
        /\ UNCHANGED <<windows, nextWin, now, waitVars, named, hostVars>>

\* killAllSessions clearing the session but not the window handle.
afterKillAll_KeepWindow(cur, win, returned) ==
    IF returned THEN <<Null, win>> ELSE <<cur, win>>

\* The state after TerminalManager.killAllSessions, given whether
\* zmx.killAllSessions returned.
afterKillAll(cur, win, returned) ==
    IF returned THEN <<Null, NoWindow>> ELSE <<cur, win>>

\* The count taken from the registry as it is after the kills.
killAllCount_Relisted(listed, after) == Cardinality(after)

\* "return sessions.length": the length of the list taken before the kills.
killAllCount(listed, after) == Cardinality(listed)

\* killAllSessions(): zmx.killAllSessions lists the sessions and kills them
\* one by one; the list or any kill may throw, after the sessions in
\* `done` were killed.  Another actor may create the sessions in `added`
\* once the list was taken.
killAllSessions ==
    \E returned \in BOOLEAN, done \in SUBSET registry,
       added \in SUBSET (Names \ registry) :
        /\ returned => done = registry
        /\ ~returned => (done # registry \/ registry = {})
        /\ registry' = (registry \ done) \cup added
        /\ currentSession' = afterKillAll(currentSession, windowId, returned)[1]
        /\ windowId' = afterKillAll(currentSession, windowId, returned)[2]
        /\ last' = IF returned
                   THEN [Response("killAllSessions", "", TRUE, "")
                            EXCEPT !.count = killAllCount(registry, registry')]
                   ELSE Response("killAllSessions", "", FALSE, "zmx error")
        /\ keysIn' = <<>>
        /\ delivered' = <<>>
        /\ UNCHANGED <<windows, nextWin, now, waitVars, named, hostVars>>

\* The loop skipping a key that does not encode instead of aborting.
RECURSIVE keyLoop_Skip(_, _, _)
keyLoop_Skip(keys, i, failAt) ==
    IF i > Len(keys) THEN [events |-> <<>>, err |-> ""]
    ELSE LET e == sendKeystroke(keys[i])
             r == keyLoop_Skip(keys, i + 1, failAt)
         IN IF e.kind = "error" THEN [events |-> r.events, err |-> e.err]
            ELSE IF i = failAt
                 THEN [events |-> <<>>, err |-> "AppleScript error"]
            ELSE [events |-> <<e>> \o r.events, err |-> r.err]

\* The for loop of sendKeys from position i on: the events delivered and the
\* error that ended the loop ("" when it ran to the end).  The automation
\* layer fails on the script of key number failAt.
RECURSIVE keyLoop(_, _, _)
keyLoop(keys, i, failAt) ==
    IF i > Len(keys) THEN [events |-> <<>>, err |-> ""]
    ELSE LET e == sendKeystroke(keys[i])
         IN IF e.kind = "error" THEN [events |-> <<>>, err |-> e.err]
            ELSE IF i = failAt
                 THEN [events |-> <<>>, err |-> "AppleScript error"]
            ELSE LET r == keyLoop(keys, i + 1, failAt)
                 IN [events |-> <<e>> \o r.events, err |-> r.err]

\* sendKeys(keys): ensureTerminalActive, then the loop.  failAt = 0 is
\* activateTerminal throwing; the returned events are all the calls that
\* reached the automation layer, in order.
sendKeysRun(keys, failAt) ==
    IF failAt = 0 THEN [events |-> <<>>, err |-> "AppleScript error"]
    ELSE LET r == keyLoop(keys, 1, failAt)
         IN [events |-> <<Activate>> \o r.events, err |-> r.err]

\* The send_keystrokes tool: sendKeys(keys) and the handler's answer.
sendKeys(keys) ==
    \E failAt \in 0..(Len(keys) + 1) :
        LET r == sendKeysRun(keys, failAt)
        IN /\ keysIn' = keys
           /\ delivered' = r.events
           /\ last' = IF r.err = ""
                      THEN [Response("sendKeys", "", TRUE, "")
                               EXCEPT !.count = Len(keys)]
                      ELSE Response("sendKeys", "", FALSE, r.err)
           /\ UNCHANGED <<mgrVars, now, waitVars>>

\* The type_text tool: typeText(text).
typeText(text) ==
    \E failAt \in 0..2 :
        /\ keysIn' = <<text>>
        /\ delivered' = CASE failAt = 0 -> <<>>
                          [] failAt = 1 -> <<Activate>>
                          [] OTHER -> <<Activate, TypedText(text)>>
        /\ last' = IF failAt = 2
                   THEN [Response("typeText", "", TRUE, "")
                            EXCEPT !.count = Len(text)]
                   ELSE Response("typeText", "", FALSE, "AppleScript error")
        /\ UNCHANGED <<mgrVars, now, waitVars>>

\* "if (!this.windowId) this.windowId = applescript.getTerminalWindowId()"
resolveWindow(win, resolved) == IF win = NoWindow THEN resolved ELSE win

\* captureScreenshot(): the image of the first on-screen window of Terminal
\* (the front one), whatever handle the caller holds; NoWindow when there is
\* none or when activating, the lookup or the capture fails.
captureScreenshot == {frontWindow, NoWindow}

\* "screenshot.data" read off the promise getScreenshot returns.
promiseData == "undefined"

\* The get_screenshot tool: getScreenshot() re-resolves the handle lazily,
\* throws when there is none, else returns the promise of captureScreenshot,
\* which the handler does not await.
getScreenshotCall ==
    \E resolved \in getTerminalWindowId, cap \in captureScreenshot :
        /\ windowId' = resolveWindow(windowId, resolved)
        /\ last' = IF windowId' = NoWindow
                   THEN Response("getScreenshot", "", FALSE,
                                 "No Terminal window is open")
                   ELSE [Response("getScreenshot", "", TRUE, "")
                            EXCEPT !.winId = windowId',
                                   !.captured = cap,
                                   !.data = promiseData,
                                   !.rejected = (cap = NoWindow)]
        /\ keysIn' = <<>>
        /\ delivered' = <<>>
        /\ UNCHANGED <<currentSession, registry, windows, nextWin, now,
                       waitVars, named, signal, shotVars>>

\* The get_screenshot tool with the capture settled before anything else
\* runs.
getScreenshot == getScreenshotCall /\ UNCHANGED capturing

\* isActive taken from the window handle.
isActiveOf_Window(cur, win) == win # NoWindow

\* "isActive: this.currentSession !== null"
isActiveOf(cur, win) == cur # Null

\* getStatus(): lazy re-resolution of the handle, then a fresh zmx list
\* (which may throw, after the handle was cached).
getStatus ==
    \E resolved \in getTerminalWindowId, listed \in BOOLEAN :
        /\ windowId' = resolveWindow(windowId, resolved)
        /\ last' = IF listed
                   THEN [Response("getStatus", "", TRUE, "")
                            EXCEPT !.sessionName = currentSession,
                                   !.isActive =
                                       isActiveOf(currentSession, windowId'),
                                   !.winId = windowId',
                                   !.sessions = registry]
                   ELSE Response("getStatus", "", FALSE, "zmx error")
        /\ keysIn' = <<>>
        /\ delivered' = <<>>
        /\ UNCHANGED <<currentSession, registry, windows, nextWin, now,
                       waitVars, named, hostVars>>

\* The sizes resize_terminal is called with.
Sizes == {<<24, 80>>, <<40, 120>>}

\* The resize_terminal tool: the script sets the size of the front window
\* inside "if (count of windows) > 0" and returns nothing; the handler
\* answers "Resized terminal to ..." whenever the script did not throw.
resizeTerminal(rows, cols) ==
    \E threw \in BOOLEAN :
        /\ last' = IF threw
                   THEN Response("resizeTerminal", "", FALSE,
                                 "AppleScript error")
                   ELSE [Response("resizeTerminal", "", TRUE, "")
                            EXCEPT !.size = <<rows, cols>>,
                                   !.applied = (windows # <<>>),
                                   !.info = "resized"]
        /\ keysIn' = <<>>
        /\ delivered' = <<>>
        /\ UNCHANGED <<mgrVars, now, waitVars>>

\* close(): closes the front window when a handle is cached (the script may
\* throw), then clears the state.
close ==
    \E closed \in BOOLEAN :
        /\ ~closed => windowId # NoWindow
        /\ IF closed
           THEN /\ windows' = IF windowId # NoWindow
                              THEN closeFront(windows) ELSE windows
                /\ currentSession' = Null
                /\ windowId' = NoWindow
                /\ last' = Response("close", "", TRUE, "")
           ELSE /\ UNCHANGED <<windows, currentSession, windowId>>
                /\ last' = Response("close", "", FALSE, "AppleScript error")
        /\ keysIn' = <<>>
        /\ delivered' = <<>>
        /\ UNCHANGED <<registry, nextWin, now, waitVars, named, hostVars>>

\* The session name restartTerminal opens.
restartName(command, cur, t) ==
    IF command # NoCommand THEN poofName(t)
    ELSE IF cur # Null THEN cur ELSE poofName(t)

\* The enter key sent before the command text.
commandKeys_EnterFirst(command) ==
    <<sendKeystroke(K_enter), TypedText(command)>>

\* "applescript.typeText(command); applescript.sendKeystroke("enter")"
commandKeys(command) == <<TypedText(command), sendKeystroke(K_enter)>>

\* restartTerminal(command).  fail names the call that throws: closing the
\* old window ("close"), opening the new one before or after the window
\* exists ("open", "openLate"), typing the command ("type"), sending enter
\* ("enter"), or none.  A failing kill of the old session is swallowed.
restartTerminalCall(command, fail) ==
    \E killed \in BOOLEAN :
        LET sessionName == restartName(command, currentSession, now)
            closedWs == IF windowId # NoWindow
                        THEN closeFront(windows) ELSE windows
            killedReg == IF currentSession # Null /\ killed
                         THEN registry \ {currentSession} ELSE registry
            opened == fail \notin {"close", "open"}
            stateSet == fail \in {"none", "type", "enter"}
        IN /\ fail = "close" => windowId # NoWindow
           /\ fail \in {"type", "enter"} => command # NoCommand
           /\ opened => nextWin <= MaxWin
           /\ ~killed => currentSession # Null
           /\ windows' = CASE fail = "close" -> windows
                           [] fail = "open" -> closedWs
                           [] OTHER -> <<nextWin>> \o closedWs
           /\ nextWin' = IF opened THEN nextWin + 1 ELSE nextWin
           /\ registry' = CASE fail = "close" -> registry
                            [] fail = "open" -> killedReg
                            [] OTHER -> killedReg \cup {sessionName}
           /\ currentSession' = IF stateSet THEN sessionName
                                ELSE currentSession
           /\ windowId' = IF stateSet THEN nextWin ELSE windowId
           /\ now' = now + (IF opened THEN OpenDelay ELSE 0)
                         + (IF stateSet /\ command # NoCommand
                            THEN SettleDelay ELSE 0)
           /\ delivered' =
                 IF ~stateSet \/ command = NoCommand \/ fail = "type"
                 THEN <<>>
                 ELSE IF fail = "enter"
                      THEN SubSeq(commandKeys(command), 1, 1)
                 ELSE commandKeys(command)
           /\ keysIn' = <<command>>
           /\ last' = IF fail = "none"
                      THEN [Response("restartTerminal", "", TRUE, "")
                               EXCEPT !.sessionName = sessionName,
                                      !.winId = nextWin]
                      ELSE Response("restartTerminal", "", FALSE,
                                    "AppleScript error")
           /\ UNCHANGED <<waitVars, hostVars>>

RestartFailures == {"none", "close", "open", "openLate", "type", "enter"}

\* The restart_terminal tool.
restartTerminal(command) ==
    \E fail \in RestartFailures :
        restartTerminalCall(command, fail) /\ UNCHANGED named

\* A user closes one of the Terminal windows.
ExtCloseWindow ==
    \E i \in 1..Len(windows) :
        /\ windows' = [j \in 1..(Len(windows) - 1) |->
                          IF j < i THEN windows[j] ELSE windows[j + 1]]
        /\ last' = NoResponse
        /\ UNCHANGED <<currentSession, windowId, registry, nextWin, now,
                       keysIn, delivered, waitVars, named, hostVars>>

\* Time passes between two operations.
Tick ==
    /\ now % SettleDelay < MaxTicks
    /\ now' = now + 1
    /\ last' = NoResponse
    /\ UNCHANGED <<mgrVars, keysIn, delivered, waitVars>>

\* The tools and the user at the window.  The clock moves with the opens and
\* the settle delay; NextNames adds the time that passes between two calls.
Next ==
    \/ \E n \in Names : createSession(n)
    \/ \E n \in Names : killSession(n)
    \/ killAllSessions
    \/ getScreenshot
    \/ getStatus
    \/ close
    \/ \E c \in Commands : restartTerminal(c)
    \/ \E sz \in Sizes : resizeTerminal(sz[1], sz[2])
    \/ ExtCloseWindow

Spec == Init /\ [][Next]_vars

\* Key delivery on its own: the tools that only talk to the automation layer.
NextSend ==
    \/ \E keys \in KeyLists : sendKeys(keys)
    \/ \E c \in Commands \ {NoCommand} : typeText(c)

SpecSend == InitIdle /\ [][NextSend]_vars

\* restartTerminal generates a name: the command is given, or there is no
\* session whose name it could reuse.
generatesName(command, cur) == command # NoCommand \/ cur = Null

\* The session tools with the history of the names they were given or
\* generated (a restart whose close throws never reaches the generation).
NextNames ==
    \/ \E n \in Names :
           createSessionCall(n) /\ named' = named \cup {n}
    \/ \E c \in Commands, fail \in RestartFailures :
           /\ restartTerminalCall(c, fail)
           /\ named' = IF fail # "close" /\ generatesName(c, currentSession)
                       THEN named \cup {restartName(c, currentSession, now)}
                       ELSE named
    \/ \E n \in Names : killSession(n)
    \/ close
    \/ Tick

SpecNames == InitIdle /\ [][NextNames]_vars

\* get_screenshot as the event loop runs it: the handler returns while
\* "await screenshot.captureWindowById" of a capture that will produce an
\* image is still pending.
getScreenshotStart == getScreenshotCall /\ capturing' = last'.captured

\* The pending capture completes.
captureSettles ==
    /\ capturing # NoWindow
    /\ capturing' = NoWindow
    /\ last' = NoResponse
    /\ UNCHANGED <<currentSession, windowId, registry, windows, nextWin, now,
                   keysIn, delivered, waitVars, named, signal, shotVars>>

\* The tools as the protocol layer dispatches them: a request is handled
\* whenever no handler is on the stack, a capture in flight or not.
NextCapture ==
    \/ \E n \in Names : createSession(n)
    \/ getScreenshotStart
    \/ captureSettles
    \/ getStatus
    \/ close
    \/ \E c \in Commands : restartTerminal(c)

SpecCapture == InitIdle /\ [][NextCapture]_vars

-----------------------------------------------------------------------------
(* applescript.captureScreenshot() and its transient file, one statement
   after another.  The file is named after the clock at entry; the clock
   moves on while activateTerminal() runs its osascript, so no two calls
   share a name. *)

MaxShots == 2

E_NoTerminalWindow ==
    "Could not find Terminal window. Make sure Terminal is open."
E_ScreenRecording == "Screen Recording permission required"
E_Activate == "AppleScript error"
E_NoImage == "could not create image from window"
E_ExitCode == "Exit code 1"
E_NoEntry == "ENOENT: no such file or directory"
E_Access == "EACCES: permission denied"

\* What captureWindowById rejects with, and what readFileSync throws.
CaptureErrors == {E_NoImage, E_ExitCode}
ReadErrors == {E_NoEntry, E_Access}

\* "errMsg.includes("could not create image") || errMsg.includes("permission")"
isPermissionIssue(errMsg) == errMsg \in {E_NoImage, E_Access}

\* The error the catch block throws for errMsg.
captureError(errMsg) ==
    IF isPermissionIssue(errMsg) THEN E_ScreenRecording
    ELSE "Could not capture screenshot: " \o errMsg

\* The file is left where it is.
unlinkSync_Fails(files, f) == files

\* unlinkSync(tmpFile), when the file exists.
unlinkSync(files, f) == files \ {f}

\* What captureScreenshot never touches.
shotRest == <<currentSession, windowId, registry, windows, nextWin, named,
              capturing, signal, keysIn, delivered, screen, wait>>

\* Handlers run when no handler is on the stack: before a call, after it,
\* and while captureScreenshot awaits the capture.
atAwait == pc \in {"idle", "done", "cs_capture"}

\* Entry: the file name is fixed, then activateTerminal(), outside the try.
CS_Start ==
    \E activated \in BOOLEAN :
        /\ pc \in {"idle", "done"}
        /\ shot.calls < MaxShots
        /\ now' = now + 1
        /\ shot' = [NoShot EXCEPT !.tmpFile = now,
                                  !.calls = shot.calls + 1,
                                  !.path = IF activated THEN "none"
                                           ELSE "activate"]
        /\ pc' = IF activated THEN "cs_find" ELSE "done"
        /\ last' = IF activated THEN NoResponse
                   ELSE Response("captureScreenshot", "", FALSE, E_Activate)
        /\ UNCHANGED <<shotRest,
                       tmpFiles>>

\* getTerminalCGWindowId(): null when there is no window or swift fails.
CS_FindWindow ==
    \E found \in (IF windows = <<>> THEN {FALSE} ELSE BOOLEAN) :
        /\ pc = "cs_find"
        /\ pc' = IF found THEN "cs_capture" ELSE "cs_catch"
        /\ shot' = IF found THEN shot
                   ELSE [shot EXCEPT !.path = "nowindow",
                                     !.errMsg = E_NoTerminalWindow]
        /\ last' = NoResponse
        /\ UNCHANGED <<shotRest, now,
                       tmpFiles>>

\* "await screenshot.captureWindowById(tmpFile, windowId)" settles: the
\* file is written and the promise resolves, or it rejects, with the file
\* written in part or not at all.
CS_Capture ==
    \E written \in BOOLEAN, errMsg \in CaptureErrors \cup {""} :
        /\ pc = "cs_capture"
        /\ tmpFiles' = IF written THEN tmpFiles \cup {shot.tmpFile}
                       ELSE tmpFiles
        /\ pc' = IF errMsg = "" THEN "cs_read" ELSE "cs_catch"
        /\ shot' = IF errMsg = "" THEN shot
                   ELSE [shot EXCEPT !.path = IF isPermissionIssue(errMsg)
                                              THEN "permission"
                                              ELSE "capture",
                                     !.errMsg = errMsg]
        /\ last' = NoResponse
        /\ UNCHANGED <<shotRest, now>>

\* readFileSync(tmpFile), then the return statement.
CS_Read ==
    \E errMsg \in (IF shot.tmpFile \in tmpFiles
                   THEN {"", E_Access} ELSE {E_NoEntry}) :
        /\ pc = "cs_read"
        /\ pc' = IF errMsg = "" THEN "cs_finally" ELSE "cs_catch"
        /\ shot' = IF errMsg = ""
                   THEN [shot EXCEPT !.path = "success",
                                     !.completion = "return"]
                   ELSE [shot EXCEPT !.path = "read", !.errMsg = errMsg]
        /\ last' = NoResponse
        /\ UNCHANGED <<shotRest, now,
                       tmpFiles>>

\* The catch block: the error is classified and thrown again.
CS_Catch ==
    /\ pc = "cs_catch"
    /\ pc' = "cs_finally"
    /\ shot' = [shot EXCEPT !.completion = "throw",
                            !.err = captureError(shot.errMsg)]
    /\ last' = NoResponse
    /\ UNCHANGED <<shotRest, now,
                   tmpFiles>>

\* The finally block: unlinkSync(tmpFile) in a try whose catch is empty
\* (it throws when there is no such file); then the call completes as the
\* try or the catch block left it.
CS_Finally ==
    /\ pc = "cs_finally"
    /\ pc' = "done"
    /\ tmpFiles' = unlinkSync(tmpFiles, shot.tmpFile)
    /\ shot' = [shot EXCEPT !.cleanup = IF shot.tmpFile \in tmpFiles
                                        THEN "removed" ELSE "failed"]
    /\ last' = IF shot.completion = "return"
               THEN [Response("captureScreenshot", "", TRUE, "")
                        EXCEPT !.data = "base64"]
               ELSE Response("captureScreenshot", "", FALSE, shot.err)
    /\ UNCHANGED <<shotRest, now>>

NextShot ==
    \/ CS_Start
    \/ CS_FindWindow
    \/ CS_Capture
    \/ CS_Read
    \/ CS_Catch
    \/ CS_Finally
    \/ atAwait /\ \E n \in Names : createSession(n)
    \/ ExtCloseWindow

SpecShot == InitIdle /\ [][NextShot]_vars

----------------------------------------------------------------------------
(* The key encoder on its own: sendKeystroke applied to one key name, and to
   a key name and one of its re-casings.  Here `delivered` holds what each
   call produced: the event, or the error thrown. *)

ShortAlphabet == {"a", "A", "+", "u", "p", "f", "1"}
ShortKeys == UNION {[1..n -> ShortAlphabet] : n \in 0..MaxShort}

LongKeys == {
    <<"e", "n", "t", "e", "r">>,
    <<"f", "o", "o">>,
    <<"c", "t", "r", "l", "+", "c">>,
    <<"c", "t", "r", "l", "+", "a", "+", "b">>,
    <<"c", "t", "r", "l", "+", "s", "h", "i", "f", "t", "+", "a">>,
    <<"s", "h", "i", "f", "t", "+", "u", "p">>,
    <<"c", "m", "d", "+", "e", "n", "t", "e", "r">>,
    <<"m", "e", "t", "a", "+", "a">>,
    <<"c", "t", "r", "l", "+", "f", "o", "o">>,
    <<"c", "t", "r", "l", "+">>,
    <<"a", "l", "t", "+", "+">>,
    <<"c", "o", "n", "s", "t", "r", "u", "c", "t", "o", "r">>
}

BaseKeys == ShortKeys \cup LongKeys

\* Every spelling of s that differs from it in letter case only.
RECURSIVE Recasings(_)
Recasings(s) ==
    IF s = <<>> THEN {<<>>}
    ELSE {<<c>> \o r : c \in {LowerChar(Head(s)), UpperChar(Head(s))},
                       r \in Recasings(Tail(s))}

InitKeys ==
    /\ InitLocal
    /\ registry = {}
    /\ keysIn \in {<<k>> : k \in BaseKeys}

\* sendKeystroke(key)
sendKeystrokeCall ==
    /\ last.op = "init"
    /\ delivered' = <<sendKeystroke(keysIn[1])>>
    /\ last' = Response("sendKeystroke", "", delivered'[1].kind # "error",
                        delivered'[1].err)
    /\ UNCHANGED <<mgrVars, now, keysIn, waitVars>>

\* sendKeystroke(key) and sendKeystroke(key2), key2 a re-casing of key
sendKeystrokeRecased ==
    \E k2 \in Recasings(keysIn[1]) :
        /\ last.op = "init"
        /\ keysIn' = <<keysIn[1], k2>>
        /\ delivered' = <<sendKeystroke(keysIn[1]), sendKeystroke(k2)>>
        /\ last' = Response("sendKeystrokeRecased", "",
                            delivered'[1].kind # "error", delivered'[1].err)
        /\ UNCHANGED <<mgrVars, now, waitVars>>

NextKeys ==
    \/ sendKeystrokeCall
    \/ sendKeystrokeRecased

SpecKeys == InitKeys /\ [][NextKeys]_vars

----------------------------------------------------------------------------
(* The registry report: zmx.listSessions *)

T_session_name ==
    <<"s", "e", "s", "s", "i", "o", "n", "_", "n", "a", "m", "e", "=">>
T_pid ==
    <<"p", "i", "d", "=">>
T_clients ==
    <<"c", "l", "i", "e", "n", "t", "s", "=">>
T_no_sessions ==
    <<"n", "o", " ", "s", "e", "s", "s", "i", "o", "n", "s", " ", "f", "o",
      "u", "n", "d">>

\* Lines of `zmx list` the parser is exercised with.
L_full ==
    <<"s", "e", "s", "s", "i", "o", "n", "_", "n", "a", "m", "e", "=", "d",
      "e", "v", " ", "p", "i", "d", "=", "1", "2", "3", " ", "c", "l", "i",
      "e", "n", "t", "s", "=", "2">>
L_name_only ==
    <<"s", "e", "s", "s", "i", "o", "n", "_", "n", "a", "m", "e", "=", "x">>
L_no_pid ==
    <<"s", "e", "s", "s", "i", "o", "n", "_", "n", "a", "m", "e", "=", "o",
      "p", "s", " ", "c", "l", "i", "e", "n", "t", "s", "=", "0">>
L_pid_in_name ==
    <<"s", "e", "s", "s", "i", "o", "n", "_", "n", "a", "m", "e", "=", "p",
      "i", "d", "=", "5", " ", "p", "i", "d", "=", "7", "7", " ", "c", "l",
      "i", "e", "n", "t", "s", "=", "1">>
L_bare ==
    <<"d", "e", "v">>
L_none ==
    <<"n", "o", " ", "s", "e", "s", "s", "i", "o", "n", "s", " ", "f", "o",
      "u", "n", "d", " ", "i", "n", " ", "/", "t", "m", "p", "/", "x">>
L_empty == <<>>
ReportLines ==
    {L_full, L_name_only, L_no_pid, L_pid_in_name, L_bare, L_none, L_empty}
Reports == UNION {[1..n -> ReportLines] : n \in 0..MaxLines}

Digits == <<"0", "1", "2", "3", "4", "5", "6", "7", "8", "9">>
isDigit(c) == \E i \in 1..10 : Digits[i] = c
isSpace(c) == c \in {" ", "\t"}

\* parseInt(digits, 10)
RECURSIVE parseInt(_)
parseInt(ds) ==
    IF ds = <<>> THEN 0
    ELSE 10 * parseInt(SubSeq(ds, 1, Len(ds) - 1))
         + ((CHOOSE i \in 1..10 : Digits[i] = ds[Len(ds)]) - 1)

\* The longest run of digits (\d+), or of non-blanks (\S+), of s from
\* position i on.
RECURSIVE runFrom(_, _, _)
runFrom(s, i, digitsOnly) ==
    IF i > Len(s) THEN <<>>
    ELSE IF (IF digitsOnly THEN isDigit(s[i]) ELSE ~isSpace(s[i]))
         THEN <<s[i]>> \o runFrom(s, i + 1, digitsOnly)
    ELSE <<>>

\* line.match(/prefix(\S+)/) or line.match(/prefix(\d+)/): the group of the
\* leftmost match, <<>> when there is none.
match(line, prefix, digitsOnly) ==
    LET n == Len(prefix)
        hits == {i \in 1..(Len(line) - n) :
                    /\ SubSeq(line, i, i + n - 1) = prefix
                    /\ runFrom(line, i + n, digitsOnly) # <<>>}
    IN IF hits = {} THEN <<>>
       ELSE LET i == CHOOSE j \in hits : \A k \in hits : j <= k
            IN runFrom(line, i + n, digitsOnly)

\* String.prototype.trim()
RECURSIVE trim(_)
trim(s) ==
    IF s = <<>> THEN s
    ELSE IF isSpace(Head(s)) THEN trim(Tail(s))
    ELSE IF isSpace(s[Len(s)]) THEN trim(SubSeq(s, 1, Len(s) - 1))
    ELSE s

\* output.trim() on the report: blank lines at both ends go.
RECURSIVE trimReport(_)
trimReport(ls) ==
    IF ls = <<>> THEN ls
    ELSE IF trim(Head(ls)) = <<>> THEN trimReport(Tail(ls))
    ELSE IF trim(ls[Len(ls)]) = <<>> THEN trimReport(SubSeq(ls, 1, Len(ls) - 1))
    ELSE ls

startsWith(s, prefix) ==
    Len(s) >= Len(prefix) /\ SubSeq(s, 1, Len(prefix)) = prefix

\* The record the map callback makes of one line.
parseLine(line) ==
    LET nameMatch == match(line, T_session_name, FALSE)
        pidMatch == match(line, T_pid, TRUE)
        clientsMatch == match(line, T_clients, TRUE)
    IN [name |-> IF nameMatch # <<>> THEN nameMatch ELSE trim(line),
        pid |-> IF pidMatch # <<>> THEN parseInt(pidMatch) ELSE Undefined,
        clients |-> IF clientsMatch # <<>> THEN parseInt(clientsMatch)
                    ELSE Undefined]

\* lines.filter((line) => line.length > 0).map(...)
RECURSIVE parseLines(_)
parseLines(ls) ==
    IF ls = <<>> THEN <<>>
    ELSE (IF Len(Head(ls)) > 0 THEN <<parseLine(Head(ls))>> ELSE <<>>)
         \o parseLines(Tail(ls))

\* listSessions() on a report zmx printed.
parseReport(report) ==
    LET trimmed == trimReport(report)
    IN IF trimmed # <<>> /\ startsWith(Head(trimmed), T_no_sessions)
       THEN <<>>
       ELSE parseLines(trimmed)

InitReport ==
    /\ InitLocal
    /\ registry = {}
    /\ keysIn \in Reports

listSessionsParses ==
    /\ last.op = "init"
    /\ delivered' = parseReport(keysIn)
    /\ last' = Response("listSessions", "", TRUE, "")
    /\ UNCHANGED <<mgrVars, now, keysIn, waitVars>>

NextReport == listSessionsParses

SpecReport == InitReport /\ [][NextReport]_vars

----------------------------------------------------------------------------
(* Text injected into a script as a string literal *)

TextAlphabet == {"a", "n", "\"", "\\"}
InjectedTexts == UNION {[1..n -> TextAlphabet] : n \in 0..MaxText}

\* text.replace(/\\/g, "\\\\").replace(/"/g, '\\"')
RECURSIVE escapeText(_)
escapeText(text) ==
    IF text = <<>> THEN <<>>
    ELSE (IF Head(text) \in {"\\", "\""}
          THEN <<"\\", Head(text)>> ELSE <<Head(text)>>)
         \o escapeText(Tail(text))

\* The character an escape sequence of a script string literal stands for.
escapedChar(c) ==
    CASE c = "n" -> "\n"
      [] c = "t" -> "\t"
      [] c = "r" -> "\r"
      [] OTHER -> c

\* How the script compiler reads the characters put between the quotes of
\* keystroke "...": the text of the literal, and whether the literal ends
\* where the script's closing quote is.
RECURSIVE readLiteral(_)
readLiteral(body) ==
    IF body = <<>> THEN [text |-> <<>>, closed |-> TRUE]
    ELSE IF Head(body) = "\"" THEN [text |-> <<>>, closed |-> FALSE]
    ELSE IF Head(body) = "\\"
         THEN IF Len(body) = 1 THEN [text |-> <<>>, closed |-> FALSE]
              ELSE LET r == readLiteral(Tail(Tail(body)))
                   IN [text |-> <<escapedChar(body[2])>> \o r.text,
                       closed |-> r.closed]
    ELSE LET r == readLiteral(Tail(body))
         IN [text |-> <<Head(body)>> \o r.text, closed |-> r.closed]

\* What the scripting layer does with keystroke "<body>".
keystrokeScript(body) ==
    LET r == readLiteral(body)
    IN IF r.closed THEN TypedText(r.text) ELSE Thrown("AppleScript error")

InitText ==
    /\ InitLocal
    /\ registry = {}
    /\ keysIn \in {<<t>> : t \in InjectedTexts}

\* typeText(text): the escaped text goes between the quotes.
typeTextInjects ==
    /\ last.op = "init"
    /\ delivered' = <<keystrokeScript(escapeText(keysIn[1]))>>
    /\ last' = Response("typeText", "", delivered'[1].kind # "error",
                        delivered'[1].err)
    /\ UNCHANGED <<mgrVars, now, keysIn, waitVars>>

\* sendKeystroke("ctrl+" + c) for a character c that is no named key: c goes
\* between the quotes as it is.
modifiedKeyInjects ==
    /\ last.op = "init"
    /\ Len(keysIn[1]) = 1
    /\ KEY_CODES(toLowerCase(keysIn[1])) = Undefined
    /\ delivered' = <<keystrokeScript(keysIn[1])>>
    /\ last' = Response("sendKeystroke", "", delivered'[1].kind # "error",
                        delivered'[1].err)
    /\ UNCHANGED <<mgrVars, now, keysIn, waitVars>>

NextText ==
    \/ typeTextInjects
    \/ modifiedKeyInjects

SpecText == InitText /\ [][NextText]_vars

----------------------------------------------------------------------------
(* Polling loops: waitForText and waitForStable *)

pollInterval == 100

Contents == {<<>>, <<"a">>, <<"b">>, <<"a", "b">>}
Texts == {<<>>, <<"b">>, <<"a", "b">>}
TimeoutChoices == {0, 100, 150, 300}
StableChoices == {0, 100, 200}
SampleDurations == {k * Quantum : k \in 0..MaxSampleTicks}

\* The loop giving up one poll interval early.
withinTimeout_Early(t, startTime, timeoutMs) ==
    t - startTime + pollInterval < timeoutMs

\* The loop condition "Date.now() - startTime < timeoutMs".
withinTimeout(t, startTime, timeoutMs) == t - startTime < timeoutMs

\* Stability declared only after a further poll interval and sample.
isStable_ExtraPoll(t, lastChangeTime, stableMs) ==
    t - lastChangeTime > stableMs + pollInterval + MaxSampleTicks * Quantum

\* "Date.now() - lastChangeTime >= stableMs"
isStable(t, lastChangeTime, stableMs) == t - lastChangeTime >= stableMs

\* The timeout runMultilineAppleScript gives osascript by default.
ScriptTimeout == 5000

\* The timeout of the getTerminalContent() call of one sample, for a caller
\* whose budget is timeoutMs.
sampleTimeout(timeoutMs) == ScriptTimeout

\* The terminal's content changes under the running call.
ScreenChange ==
    /\ pc \notin {"idle", "done"}
    /\ \E c \in Contents \ {screen} : screen' = c
    /\ wait' = [wait EXCEPT !.changed = (pc # "ws_first") \/ @]
    /\ UNCHANGED <<mgrVars, now, last, keysIn, delivered, pc>>

\* The call ends: the result the caller gets.
Returned(w, t, result) ==
    [w EXCEPT !.result = result, !.elapsedMs = t - w.startTime]

\* A busy wait under a clock that stands still.
Sleep_Stuck(from, to) ==
    /\ pc = from
    /\ UNCHANGED vars

\* The busy wait "while (Date.now() < sleepUntil)".
Sleep(from, to) ==
    /\ pc = from
    /\ now' = IF now < wait.sleepUntil THEN wait.sleepUntil ELSE now
    /\ pc' = to
    /\ UNCHANGED <<mgrVars, last, keysIn, delivered, screen, wait>>

\* A getScreenText() that throws ends the call with the error.
SampleThrows(from, op) ==
    /\ pc = from
    /\ pc' = "done"
    /\ last' = Response(op, "", FALSE, "AppleScript error")
    /\ UNCHANGED <<mgrVars, now, keysIn, delivered, screen, wait>>

\* A getScreenText() whose script blocks until osascript is killed at its
\* timeout: the PermissionsError ends the call.
SampleTimesOut(from, op) ==
    /\ pc = from
    /\ pc' = "done"
    /\ now' = now + sampleTimeout(wait.timeoutMs)
    /\ wait' = [wait EXCEPT !.samples = @ + 1,
                            !.sampleMs = sampleTimeout(wait.timeoutMs)]
    /\ last' = Response(op, "", FALSE, "PermissionsError")
    /\ UNCHANGED <<mgrVars, keysIn, delivered, screen>>

\* SIGINT or SIGTERM is delivered to the process.
SignalArrives ==
    /\ signal.state = "none"
    /\ signal' = [state |-> "pending", at |-> pc]
    /\ UNCHANGED <<currentSession, windowId, registry, windows, nextWin, now,
                   last, keysIn, delivered, waitVars, named, capturing, shotVars>>

\* The SIGINT / SIGTERM handler, a callback the event loop runs when no
\* call is on the stack: close(), then the process exits (when close()
\* throws, the handler ends there).
Shutdown ==
    \E closed \in BOOLEAN :
        /\ signal.state = "pending"
        /\ pc \in {"idle", "done"}
        /\ ~closed => windowId # NoWindow
        /\ signal' = [signal EXCEPT !.state = "handled"]
        /\ IF closed
           THEN /\ windows' = IF windowId # NoWindow
                              THEN closeFront(windows) ELSE windows
                /\ currentSession' = Null
                /\ windowId' = NoWindow
                /\ pc' = "exited"
           ELSE UNCHANGED <<windows, currentSession, windowId, pc>>
        /\ UNCHANGED <<registry, nextWin, now, last, keysIn, delivered,
                       screen, wait, named, capturing, shotVars>>

\* waitForText(text, timeoutMs): entry.
WT_Start ==
    \E text \in Texts, timeoutMs \in TimeoutChoices, s \in Contents :
        /\ pc = "idle"
        /\ screen' = s
        /\ wait' = [wait EXCEPT !.text = text, !.timeoutMs = timeoutMs,
                                !.startTime = now]
        /\ pc' = "wt_check"
        /\ last' = Response("waitForText", "", TRUE, "")
        /\ UNCHANGED <<mgrVars, now, keysIn, delivered>>

\* waitForText: the while condition; the loop's exit returns found = false.
WT_Check ==
    /\ pc = "wt_check"
    /\ IF withinTimeout(now, wait.startTime, wait.timeoutMs)
       THEN /\ pc' = "wt_sample"
            /\ wait' = wait
       ELSE /\ pc' = "done"
            /\ wait' = Returned(wait, now, FALSE)
    /\ UNCHANGED <<mgrVars, now, last, keysIn, delivered, screen>>

\* waitForText: one sample and the substring test.
WT_Sample ==
    \E d \in SampleDurations :
        LET t == now + d
            hit == includes(screen, wait.text)
            w == [wait EXCEPT !.content = screen,
                              !.samples = @ + 1,
                              !.matches = @ + (IF hit THEN 1 ELSE 0),
                              !.sampleMs = d]
        IN /\ pc = "wt_sample"
           /\ now' = t
           /\ IF hit
              THEN /\ pc' = "done"
                   /\ wait' = Returned(w, t, TRUE)
              ELSE /\ pc' = "wt_sleep"
                   /\ wait' = [w EXCEPT !.sleepUntil = t + pollInterval]
           /\ UNCHANGED <<mgrVars, last, keysIn, delivered, screen>>

WT_Sleep == Sleep("wt_sleep", "wt_check")

WT_Throws == SampleThrows("wt_sample", "waitForText")

WT_TimesOut == SampleTimesOut("wt_sample", "waitForText")

NextWaitText ==
    \/ WT_Start
    \/ WT_Check
    \/ WT_Sample
    \/ WT_Sleep
    \/ WT_Throws
    \/ WT_TimesOut
    \/ ScreenChange
    \/ SignalArrives
    \/ Shutdown

SpecWaitText == InitIdle /\ [][NextWaitText]_vars

\* waitForStable(timeoutMs, stableMs): entry.
WS_Start ==
    \E timeoutMs \in TimeoutChoices, stableMs \in StableChoices,
       s \in Contents :
        /\ pc = "idle"
        /\ screen' = s
        /\ wait' = [wait EXCEPT !.timeoutMs = timeoutMs, !.stableMs = stableMs,
                                !.startTime = now]
        /\ pc' = "ws_first"
        /\ last' = Response("waitForStable", "", TRUE, "")
        /\ UNCHANGED <<mgrVars, now, keysIn, delivered>>

\* waitForStable: the initial sample, the baseline.
WS_First ==
    \E d \in SampleDurations :
        /\ pc = "ws_first"
        /\ now' = now + d
        /\ wait' = [wait EXCEPT !.lastContent = screen,
                                !.lastChangeTime = wait.startTime,
                                !.samples = 1,
                                !.sampleMs = d,
                                !.firstMs = d,
                                !.prevSample = screen,
                                !.lastDiffTime = wait.startTime]
        /\ pc' = "ws_check"
        /\ UNCHANGED <<mgrVars, last, keysIn, delivered, screen>>

\* waitForStable: the while condition; the loop's exit returns stable = false.
WS_Check ==
    /\ pc = "ws_check"
    /\ IF withinTimeout(now, wait.startTime, wait.timeoutMs)
       THEN /\ pc' = "ws_sample"
            /\ wait' = wait
       ELSE /\ pc' = "done"
            /\ wait' = Returned(wait, now, FALSE)
    /\ UNCHANGED <<mgrVars, now, last, keysIn, delivered, screen>>

\* A change noted without restarting the stability window.
noteChange_KeepTime(w, content, t) ==
    IF content # w.lastContent
    THEN [w EXCEPT !.lastContent = content]
    ELSE w

\* "if (content !== lastContent) { lastContent = content;
\*  lastChangeTime = Date.now(); }"
noteChange(w, content, t) ==
    IF content # w.lastContent
    THEN [w EXCEPT !.lastContent = content, !.lastChangeTime = t]
    ELSE w

\* waitForStable: one sample, the comparison with the previous sample and
\* the stability test.  prevSample and lastDiffTime record, apart from the
\* loop's own variables, the sample before this one and when a sample last
\* differed from the one before it.
WS_Sample ==
    \E d \in SampleDurations :
        LET t == now + d
            differs == screen # wait.prevSample
            w == [noteChange(wait, screen, t)
                      EXCEPT !.content = screen,
                             !.samples = @ + 1,
                             !.sampleMs = d,
                             !.prevSample = screen,
                             !.lastDiffTime = IF differs THEN t ELSE @]
        IN /\ pc = "ws_sample"
           /\ now' = t
           /\ IF isStable(t, w.lastChangeTime, wait.stableMs)
              THEN /\ pc' = "done"
                   /\ wait' = Returned(w, t, TRUE)
              ELSE /\ pc' = "ws_sleep"
                   /\ wait' = [w EXCEPT !.sleepUntil = t + pollInterval]
           /\ UNCHANGED <<mgrVars, last, keysIn, delivered, screen>>

WS_Sleep == Sleep("ws_sleep", "ws_check")

WS_Throws ==
    \/ SampleThrows("ws_first", "waitForStable")
    \/ SampleThrows("ws_sample", "waitForStable")

WS_TimesOut ==
    \/ SampleTimesOut("ws_first", "waitForStable")
    \/ SampleTimesOut("ws_sample", "waitForStable")

NextWaitStable ==
    \/ WS_Start
    \/ WS_First
    \/ WS_Check
    \/ WS_Sample
    \/ WS_Sleep
    \/ WS_Throws
    \/ WS_TimesOut
    \/ ScreenChange
    \/ SignalArrives
    \/ Shutdown

SpecWaitStable == InitIdle /\ [][NextWaitStable]_vars

\* Both waits with every sample returning.  The call is synchronous code on
\* the one thread: once entered, its next statement runs, so each of its
\* steps is taken when it stays enabled; the screen may change at any time.
NextWaits ==
    \/ WT_Start
    \/ WT_Check
    \/ WT_Sample
    \/ WT_Sleep
    \/ WS_Start
    \/ WS_First
    \/ WS_Check
    \/ WS_Sample
    \/ WS_Sleep
    \/ ScreenChange

WaitStep ==
    \/ WT_Check
    \/ WT_Sample
    \/ WT_Sleep
    \/ WS_First
    \/ WS_Check
    \/ WS_Sample
    \/ WS_Sleep

SpecWaitsFair == InitIdle /\ [][NextWaits]_vars /\ WF_vars(WaitStep)

----------------------------------------------------------------------------
(* Properties *)

\* A step that is one tool call of the Manager.
opStep == last'.op # "none"

\* C1: a killSession whose registry kill succeeds clears the session and the
\* window handle when the name is the current session and changes neither
\* otherwise; so a successful createSession(n) followed by a successful
\* killSession(n) ends with no session, and getStatus reports the session
\* name held (null then) with isActive = (a session name is held), without
\* changing it.
C1_KillSessionClears ==
    [][ /\ (opStep /\ last'.op = "killSession" /\ last'.ok) =>
              IF last'.arg = currentSession
              THEN currentSession' = Null /\ windowId' = NoWindow
              ELSE currentSession' = currentSession /\ windowId' = windowId
        /\ (opStep /\ last.op = "createSession" /\ last.ok
              /\ last'.op = "killSession" /\ last'.ok /\ last'.arg = last.arg)
              => currentSession' = Null /\ windowId' = NoWindow
        /\ (opStep /\ last'.op = "getStatus" /\ last'.ok) =>
              /\ currentSession' = currentSession
              /\ last'.sessionName = currentSession
              /\ last'.isActive = (currentSession # Null)
      ]_vars

\* C1 witness: the current session was killed while its window is still open.
C1_Witness ==
    /\ last.op = "killSession" /\ last.ok
    /\ currentSession = Null /\ windowId = NoWindow
    /\ windows # <<>> /\ last.arg \notin registry

\* C2 as claimed: a window handle is cached only while a session is set.
C2_HandleOnlyWithSession == windowId # NoWindow => currentSession # Null

\* C2 amended: only the lazy re-resolution of getStatus and getScreenshot
\* makes the state one with a window handle and no session; every other call
\* ends in such a state only if it started in one.
C2_HandleWithoutSessionOnlyLazily ==
    [][ (opStep /\ currentSession' = Null /\ windowId' # NoWindow) =>
            \/ last'.op \in {"getStatus", "getScreenshot"}
            \/ (currentSession = Null /\ windowId # NoWindow)
      ]_vars

\* C2 witness: getStatus cached the front window's handle with no session.
C2_Witness ==
    /\ last.op = "getStatus"
    /\ currentSession = Null /\ windowId # NoWindow

\* C3 as claimed: every killAllSessions call, failing ones included, ends
\* with no session and no window handle.
C3_KillAllAlwaysClears ==
    [][ (opStep /\ last'.op = "killAllSessions") =>
            (currentSession' = Null /\ windowId' = NoWindow) ]_vars

UnknownKeyErrors == {"Unknown key", "Unknown modifier"}

\* C4 as claimed: when sendKeys stops at a key that does not encode, the
\* answer carries the number of keys delivered before it.
C4_PartialCountReported ==
    (last.op = "sendKeys" /\ ~last.ok /\ last.err \in UnknownKeyErrors)
        => last.count = Len(delivered) - 1

\* The first position of keys whose key does not encode, Len(keys) + 1 if none.
firstBad(keys) ==
    IF \E i \in 1..Len(keys) : sendKeystroke(keys[i]).kind = "error"
    THEN CHOOSE i \in 1..Len(keys) :
            /\ sendKeystroke(keys[i]).kind = "error"
            /\ \A j \in 1..(i - 1) : sendKeystroke(keys[j]).kind # "error"
    ELSE Len(keys) + 1

\* C5: sendKeys activates the terminal before any key, delivers the keys in
\* the order given, delivers nothing at or after the first key that does not
\* encode, and a returned count is the number of key events delivered.
C5_SendKeysOrder ==
    last.op = "sendKeys" =>
        LET n == Len(delivered) - 1
        IN /\ delivered # <<>> => delivered[1] = Activate
           /\ \A i \in 2..Len(delivered) :
                 /\ delivered[i] # Activate
                 /\ delivered[i] = sendKeystroke(keysIn[i - 1])
           /\ n < firstBad(keysIn)
           /\ firstBad(keysIn) <= Len(keysIn) => ~last.ok
           /\ last.ok => (last.count = n /\ n = Len(keysIn))

\* C5 witness: one key was delivered, then the loop stopped at an unknown key.
C5_Witness ==
    /\ last.op = "sendKeys" /\ ~last.ok /\ last.err = "Unknown key"
    /\ Len(keysIn) = 2 /\ Len(delivered) = 2

\* C6 as claimed: a key name and any re-casing of it encode to the same
\* result.
C6_CaseInsensitive ==
    last.op = "sendKeystrokeRecased" => delivered[1] = delivered[2]

Modifiers == {<<"c","t","r","l">>, <<"c","o","n","t","r","o","l">>,
              <<"a","l","t">>, <<"o","p","t","i","o","n">>,
              <<"s","h","i","f","t">>,
              <<"c","m","d">>, <<"c","o","m","m","a","n","d">>}

NamedKeys == {e[1] : e \in KEY_CODES_TABLE}

\* Exactly one recognized modifier, "+", and a named key or one character.
wellFormedCombination(key) ==
    LET parts == split(key, "+")
    IN /\ Len(parts) = 2
       /\ toLowerCase(parts[1]) \in Modifiers
       /\ (toLowerCase(parts[2]) \in NamedKeys \/ Len(parts[2]) = 1)

\* C7 as claimed: a key name containing "+" is accepted exactly when it is
\* one recognized modifier followed by a named key or a single character;
\* every other one fails with UnknownKey.
C7_OnlyWellFormedCombinations ==
    (last.op = "sendKeystroke" /\ includesChar(keysIn[1], "+")) =>
        IF wellFormedCombination(keysIn[1])
        THEN delivered[1].kind \in {"keycode", "keystroke"}
        ELSE delivered[1].kind = "error"
             /\ delivered[1].err \in UnknownKeyErrors

\* C8 as claimed: a bare one-character key name that is not a named key is
\* injected as that literal character and never fails.
C8_SingleCharacterIsText ==
    (last.op = "sendKeystroke" /\ Len(keysIn[1]) = 1
        /\ toLowerCase(keysIn[1]) \notin NamedKeys)
        => delivered[1] = TypedText(keysIn[1])

\* C9: waitForText returns found = true only on a sample that contains the
\* text, and that sample is the first one that does; it returns found = false
\* only once timeoutMs has elapsed, and then no sample contained the text.
C9_WaitForText ==
    (pc = "done" /\ last.op = "waitForText" /\ last.ok) =>
        IF wait.result
        THEN /\ wait.samples >= 1
             /\ includes(wait.content, wait.text)
             /\ wait.matches = 1
        ELSE /\ wait.elapsedMs >= wait.timeoutMs
             /\ wait.matches = 0

\* C9 witness: a call that polled more than once and timed out.
C9_Witness ==
    /\ pc = "done" /\ last.op = "waitForText" /\ last.ok
    /\ ~wait.result /\ wait.samples >= 2

\* A finished waitForStable call during which the screen never changed after
\* the first sample.
stableCallOnStillScreen ==
    /\ pc = "done" /\ last.op = "waitForStable" /\ last.ok
    /\ ~wait.changed

\* C10 as claimed: on a screen that never changes, with stableMs < timeoutMs,
\* the call returns stable = true, at elapsed >= stableMs and within one poll
\* interval plus one sample of stableMs.
C10_StillScreenIsStable ==
    (stableCallOnStillScreen /\ wait.stableMs < wait.timeoutMs) =>
        /\ wait.result
        /\ wait.elapsedMs >= wait.stableMs
        /\ wait.elapsedMs <= wait.stableMs + pollInterval + wait.sampleMs

\* C10 amended: on a screen that never changes, when timeoutMs is at least
\* stableMs plus one poll interval and the initial sample returns before
\* timeoutMs, the call returns stable = true at elapsed >= stableMs, on its
\* first loop sample or within one poll interval plus one sample of stableMs.
C10_StillScreenIsStableWithMargin ==
    (stableCallOnStillScreen
        /\ wait.stableMs + pollInterval <= wait.timeoutMs
        /\ wait.firstMs < wait.timeoutMs) =>
        /\ wait.result
        /\ wait.elapsedMs >= wait.stableMs
        /\ \/ wait.samples = 2
           \/ wait.elapsedMs <= wait.stableMs + pollInterval + wait.sampleMs

\* C10 witness: a still screen declared stable after several polls.
C10_Witness ==
    /\ stableCallOnStillScreen
    /\ wait.stableMs + pollInterval <= wait.timeoutMs
    /\ wait.firstMs < wait.timeoutMs
    /\ wait.result /\ wait.samples >= 3 /\ wait.stableMs > 0

\* C11: waitForStable returns stable = true only when, at the return, at
\* least stableMs has passed since the last sample that differed from the
\* sample before it (since the call's start when none differed); the
\* baseline is then that last differing sample, so every sample since is
\* equal to it.
C11_StableOnlyAfterQuietWindow ==
    (pc = "done" /\ last.op = "waitForStable" /\ last.ok /\ wait.result)
        => /\ wait.startTime + wait.elapsedMs - wait.lastDiffTime
                  >= wait.stableMs
           /\ wait.lastChangeTime = wait.lastDiffTime
           /\ wait.lastContent = wait.prevSample
           /\ wait.content = wait.prevSample

\* A stable return after a sample that differed restarted a nonzero window.
C11_Witness ==
    /\ pc = "done" /\ last.op = "waitForStable" /\ last.ok /\ wait.result
    /\ wait.stableMs > 0
    /\ wait.lastDiffTime > wait.startTime
    /\ wait.samples >= 3

\* C12: the name restartTerminal generates for a command differs from every
\* name passed to createSession before and from every name an earlier
\* restartTerminal generated.
C12_GeneratedNameIsFresh ==
    [][(last'.op = "restartTerminal" /\ keysIn' # <<NoCommand>>
            /\ last'.sessionName # Null)
          => last'.sessionName \notin named]_vars

\* The windows open in Terminal.app.
openWindows(ws) == {ws[i] : i \in 1..Len(ws)}

\* C13: a restartTerminal that returns ends in the new session and its new
\* window, also when the kill of the stale session failed; a restartTerminal
\* that fails leaves a state that names neither a session the restart killed
\* nor a window the restart closed.
C13_RestartIsAtomic ==
    [][last'.op = "restartTerminal"
          => IF last'.ok
             THEN /\ currentSession' = last'.sessionName
                  /\ windowId' = last'.winId
                  /\ windowId' \in openWindows(windows') \ openWindows(windows)
                  /\ currentSession' \in registry'
             ELSE /\ currentSession' \notin registry \ registry'
                  /\ windowId' \notin
                         openWindows(windows) \ openWindows(windows')]_vars

\* C14: a tool call whose operation failed answers with isError and a
\* message, never with a success payload, and no rejection is left
\* unhandled; for get_screenshot the failure of the capture counts.
C14_FailuresAreStructured ==
    /\ ~last.rejected
    /\ ~last.ok => last.err # ""
    /\ (last.op = "getScreenshot" /\ last.captured = NoWindow)
           => (~last.ok /\ last.err # "")

\* C15: the getStatus or getScreenshot that follows a move of the
\* environment (a window closed from outside) never answers with the handle
\* of a window that no longer exists.
C15_NoStaleHandle ==
    [][(last.op = "none"
            /\ last'.op \in {"getStatus", "getScreenshot"} /\ last'.ok
            /\ last'.winId # NoWindow)
          => last'.winId \in openWindows(windows')]_vars

\* C19: getScreenshot fails with "no window" exactly when no handle is
\* cached and none is resolved; a window that is captured is the one the
\* Manager's handle identifies.
C19_CapturesHeldWindow ==
    [][last'.op = "getScreenshot"
          => /\ (last'.err = "No Terminal window is open")
                    <=> (windowId = NoWindow /\ windowId' = NoWindow)
             /\ windowId # NoWindow => windowId' = windowId
             /\ last'.captured # NoWindow
                    => last'.captured = windowId']_vars

\* C20: after close(), on every exit path, no session and no window handle
\* are held.
C20_CloseClears ==
    [][last'.op = "close"
          => (currentSession' = Null /\ windowId' = NoWindow)]_vars

\* C16: operations never overlap: while the capture of a get_screenshot is
\* in flight, no tool call runs.
C16_NoOverlap ==
    [][capturing # NoWindow => last'.op = "none"]_vars

\* C17: a signal delivered while a wait was asleep between two samples has
\* been handled by the time the wait returns.
C17_SleepYields ==
    (pc = "done" /\ signal.state = "pending")
        => signal.at \notin {"wt_sleep", "ws_sleep"}

\* C18: every sample of a wait runs under a timeout strictly shorter than
\* the wait's timeoutMs, and so takes less than timeoutMs.
C18_SampleBoundedBelowBudget ==
    wait.samples > 0
        => /\ sampleTimeout(wait.timeoutMs) < wait.timeoutMs
           /\ wait.sampleMs < wait.timeoutMs

\* C21: a killAllSessions that returns has killed every session listed at
\* its start and answers with the length of that list, whatever sessions
\* another actor created meanwhile.
C21_KillAllCountsListed ==
    [][(last'.op = "killAllSessions" /\ last'.ok)
          => /\ last'.count = Cardinality(registry)
             /\ registry \cap registry' = {}]_vars

\* killAllSessions answered with the count of a non-empty list while another
\* actor's new session is in the registry.
C21_Witness ==
    /\ last.op = "killAllSessions" /\ last.ok
    /\ last.count >= 1
    /\ registry # {}

\* C22: resizeTerminal without a window changes nothing and is no error,
\* and its answer differs from the answer of a resize that was applied.
C22_ResizeWithoutWindowIsTold ==
    [][(last'.op = "resizeTerminal" /\ windows = <<>>)
          => /\ last'.ok \/ last'.err # ""
             /\ UNCHANGED mgrVars
             /\ last'.ok => (~last'.applied /\ last'.info # "resized")]_vars

\* C23: the text the scripting layer receives from typeText, and from
\* sendKeystroke for a character with a modifier, is the input text, and
\* the string literal ends where the script closes it.
C23_InjectedTextRoundTrips ==
    last.op \in {"typeText", "sendKeystroke"}
        => (delivered[1].kind = "text" /\ delivered[1].text = keysIn[1])

\* The blank-separated words of a line.
words(line) == SelectSeq(split(line, " "), LAMBDA w : w # <<>>)

\* The value of the key=value token of a line, <<>> when the line has no
\* such token.
tokenValue(line, key) ==
    LET ws == SelectSeq(words(line),
                        LAMBDA w : startsWith(w, key) /\ Len(w) > Len(key))
    IN IF ws = <<>> THEN <<>>
       ELSE SubSeq(Head(ws), Len(key) + 1, Len(Head(ws)))

\* The number of a numeric token, absent when the line has no such token.
tokenNumber(line, key) ==
    LET v == tokenValue(line, key)
    IN IF v # <<>> /\ \A i \in 1..Len(v) : isDigit(v[i])
       THEN parseInt(v) ELSE Undefined

\* C24: a report that begins "no sessions found" parses to the empty
\* sequence; otherwise each non-empty line gives one record, in order, with
\* the session_name token as the name and the numbers of the pid and
\* clients tokens, absent where the line has no such token.
C24_RegistryParsing ==
    last.op = "listSessions"
        => LET ls == SelectSeq(keysIn, LAMBDA l : l # <<>>)
           IN IF ls # <<>> /\ startsWith(Head(ls), T_no_sessions)
              THEN delivered = <<>>
              ELSE /\ Len(delivered) = Len(ls)
                   /\ \A i \in 1..Len(ls) :
                         tokenValue(ls[i], T_session_name) # <<>>
                            => /\ delivered[i].name
                                     = tokenValue(ls[i], T_session_name)
                               /\ delivered[i].pid
                                     = tokenNumber(ls[i], T_pid)
                               /\ delivered[i].clients
                                     = tokenNumber(ls[i], T_clients)

\* C25: getStatus leaves currentSession alone and reports it, with
\* isActive true exactly when it is set and with the registry's sessions as
\* they are; a getStatus that directly follows a getStatus reports the same
\* sessionName, isActive and sessions.
C25_GetStatusIdempotent ==
    [][(last'.op = "getStatus")
          => /\ currentSession' = currentSession
             /\ registry' = registry
             /\ last'.ok
                  => /\ last'.sessionName = currentSession
                     /\ last'.isActive = (last'.sessionName # Null)
                     /\ last'.sessions = registry
                     /\ (last.op = "getStatus" /\ last.ok)
                          => /\ last'.sessionName = last.sessionName
                             /\ last'.isActive = last.isActive
                             /\ last'.sessions = last.sessions]_vars

\* getStatus answered for a Manager that holds a window handle but no
\* session, with sessions in the registry.
C25_Witness ==
    /\ last.op = "getStatus" /\ last.ok
    /\ last.sessionName = Null /\ ~last.isActive
    /\ last.winId # NoWindow
    /\ last.sessions # {}

\* C26: a restartTerminal that returns has delivered, for a command, the
\* command text and then one enter key event and nothing else, and for no
\* command nothing; whatever a restartTerminal delivers, it delivers with
\* the new window open and in front and the state set to the new session
\* and that window.
C26_CommandAfterOpen ==
    [][(last'.op = "restartTerminal")
          => /\ last'.ok
                  => delivered' =
                        IF keysIn'[1] # NoCommand
                        THEN <<TypedText(keysIn'[1]), KeyCode(36, "")>>
                        ELSE <<>>
             /\ delivered' # <<>>
                  => /\ keysIn'[1] # NoCommand
                     /\ delivered'[1] = TypedText(keysIn'[1])
                     /\ windowId' = nextWin /\ nextWin' = nextWin + 1
                     /\ windows' # <<>> /\ Head(windows') = windowId'
                     /\ currentSession' # Null
                     /\ currentSession' \in registry']_vars

\* restartTerminal returned after typing a command into the window it opened.
C26_Witness ==
    /\ last.op = "restartTerminal" /\ last.ok
    /\ keysIn[1] # NoCommand /\ Len(delivered) = 2
    /\ windowId # NoWindow /\ currentSession = last.sessionName

C28_WaitsTerminate == (pc \notin {"idle", "done"}) ~> (pc = "done")

\* A wait that gave up at its timeout after several samples.
C28_Witness ==
    /\ pc = "done" /\ ~wait.result
    /\ wait.samples >= 3 /\ wait.elapsedMs >= wait.timeoutMs

\* C29: a waitForText that returns, with the screen holding the text from
\* the call's entry to its return, has sampled the screen at least once and
\* answers found = true, whatever timeoutMs.
C29_SamplesBeforeNotFound ==
    (/\ pc = "done" /\ last.op = "waitForText" /\ last.ok
     /\ ~wait.changed /\ includes(screen, wait.text))
        => (wait.samples >= 1 /\ wait.result)

\* C30: after a createSession, restartTerminal, killSession, killAllSessions
\* or close that succeeded, at most one of the windows the Manager opened
\* is open, and it is the one whose handle the Manager holds.
C30_SingleWindow ==
    (/\ last.op \in {"createSession", "restartTerminal", "killSession",
                     "killAllSessions", "close"}
     /\ last.ok)
        => /\ Len(windows) <= 1
           /\ windows # <<>> => windowId = Head(windows)

============================================================================
